---- MODULE Spec2Model ----
(***************************************************************************)
(* Therapy-game telemetry API (src/api/main.py, models.py, database.py).   *)
(*                                                                         *)
(* The store (players, game_sessions, one table per exercise) and the      *)
(* in-memory rate limiter are the shared state; every HTTP request is a    *)
(* handler that advances one storage round trip at a time, so that         *)
(* handlers of different worker processes interleave at the store.         *)
(* Time is counted in minutes: the limiter's window is one minute and the  *)
(* session quota looks back one hour.  admitted counts, for the claims,    *)
(* the requests the limiter let through in the current minute.             *)
(***************************************************************************)
EXTENDS Integers, Sequences, FiniteSets, TLC

VARIABLES players, game_sessions, results, hits, admitted, now, reqs

vars == <<players, game_sessions, results, hits, admitted, now, reqs>>

(***************************************************************************)
(* Bounds of the model.                                                    *)
(***************************************************************************)
MaxInFlight == 2
MaxPlayers == 2
MaxNewSessions == 2
MaxResultRows == 2
SeedSessions == 19
QuietHits == 2
MaxRacers == 3

(***************************************************************************)
(* Program constants.                                                      *)
(***************************************************************************)
PlayerLimit == 5
SessionLimit == 10
SessionQuota == 20
Hour == 60
MinPasscode == 1000
MaxPasscode == 9999

(***************************************************************************)
(* Inputs.                                                                 *)
(***************************************************************************)
Addrs == {"10.0.0.1", "10.0.0.2"}
Salts == {"s1", "s2"}
BodyPasscodes == {999, 1000, 9999}
QueryPasscodes == {999, 1000, 9999}
PlayerIds == 1 .. MaxPlayers + 1
SessionIds == {1, SeedSessions + MaxNewSessions + 1}
Times == {0, 1, Hour - 1, Hour, Hour + 1}
Slots == 1 .. MaxInFlight
\* The handlers of a burst of requests for one player.
Racers == 1 .. MaxRacers

ExerciseKinds ==
    {"breathing_techniques", "stretch_and_reach", "light_hands",
     "rhythm_recovery", "draw_shapes", "line_walk", "balloons"}

\* What a client measured: the flag, and the value it reports in every other
\* field of the exercise's body.
DataInputs ==
    {[play_or_pass |-> TRUE, measures |-> 12],
     [play_or_pass |-> FALSE, measures |-> 0]}

\* The fields of the request schema of each exercise.
Fields(kind) ==
    CASE kind = "breathing_techniques" ->
             {"play_or_pass", "breaths"}
      [] kind = "stretch_and_reach" ->
             {"play_or_pass", "total_stars", "highest_level",
             "missed_stars_location"}
      [] kind = "light_hands" ->
             {"play_or_pass", "two_one_left_score", "two_one_right_score",
             "two_two_left_score", "two_two_right_score",
             "three_three_left_score", "three_three_right_score"}
      [] kind = "rhythm_recovery" ->
             {"play_or_pass", "thumb_left_time", "index_left_time",
             "middle_left_time", "ring_left_time", "little_left_time",
             "thumb_right_time", "index_right_time", "middle_right_time",
             "ring_right_time", "little_right_time", "thumb_left_skipped",
             "index_left_skipped", "middle_left_skipped",
             "ring_left_skipped", "little_left_skipped",
             "thumb_right_skipped", "index_right_skipped",
             "middle_right_skipped", "ring_right_skipped",
             "little_right_skipped"}
      [] kind = "draw_shapes" ->
             {"play_or_pass", "small_left_time", "small_right_time",
             "medium_left_time", "medium_right_time", "large_left_time",
             "large_right_time"}
      [] kind = "line_walk" ->
             {"play_or_pass", "forward_time", "backward_time",
             "crab_right_time", "crab_left_time", "out_of_line_count"}
      [] kind = "balloons" ->
             {"play_or_pass", "waist_left_score", "waist_right_score",
             "chest_left_score", "chest_right_score", "head_left_score",
             "head_right_score", "knees_left_score", "knees_right_score",
             "feet_left_score", "feet_right_score"}
\* data.dict(): the validated body, field by field.
data_dict(kind, data) ==
    [f \in Fields(kind) |->
        IF f = "play_or_pass" THEN data.play_or_pass ELSE data.measures]

(***************************************************************************)
(* str(passcode): the decimal string of an integer.                        *)
(***************************************************************************)
Digits == <<"0", "1", "2", "3", "4", "5", "6", "7", "8", "9">>

RECURSIVE StrNat(_)
StrNat(n) ==
    IF n < 10 THEN <<Digits[n + 1]>>
    ELSE StrNat(n \div 10) \o <<Digits[(n % 10) + 1]>>

Str(n) == IF n < 0 THEN <<"-">> \o StrNat(-n) ELSE StrNat(n)

(***************************************************************************)
(* bcrypt, idealised: the hash string embeds the salt and a digest that    *)
(* determines (salt, password); checkpw re-hashes with the embedded salt.  *)
(***************************************************************************)
hashpw(password, salt) == [salt |-> salt, digest |-> <<salt, password>>]

\* A check that compares the salt and not the digest.
checkpw_salt_only(password, hashed) ==
    hashpw(password, hashed.salt).salt = hashed.salt

checkpw(password, hashed) == hashpw(password, hashed.salt) = hashed

(***************************************************************************)
(* Responses, as the client sees them.                                     *)
(***************************************************************************)
NoResponse == [status |-> 0, detail |-> ""]
Ok(value) == [status |-> 200, detail |-> value]
ValidationError == [status |-> 422, detail |-> "validation error"]
TooManyRequests == [status |-> 429, detail |-> "Too many requests"]
PlayerNotFound == [status |-> 404, detail |-> "Player not found"]
IncorrectPasscode == [status |-> 401, detail |-> "Incorrect passcode"]
TooManySessions ==
    [status |-> 429, detail |-> "Too many sessions created in the last hour."]
SessionNotFound == [status |-> 404, detail |-> "Game session not found"]
DatabaseError == [status |-> 500, detail |-> "Database error"]
\* An exception no handler translates: the framework's bare 500.
InternalServerError == [status |-> 500, detail |-> "Internal Server Error"]

(***************************************************************************)
(* Requests in flight.  A slot holds one request from its arrival to the   *)
(* delivery of its response.  log lists the stages the handler ran;        *)
(* committed and row_id tell whether (and which) row it made durable;      *)
(* rolled_back tells whether it called db.rollback(); faulted tells        *)
(* whether a storage call of the handler failed; at and counted are the    *)
(* time and the result of the quota query.  db is the request's scoped     *)
(* storage session ("open" from get_db's SessionLocal() to its close(),    *)
(* "none" for a route without the dependency) and txn tells whether the    *)
(* session has a transaction begun and neither committed nor rolled back.  *)
(***************************************************************************)
Idle == [pc |-> "idle"]

NewRequest(route, addr, args) ==
    [pc |-> "new", route |-> route, addr |-> addr, args |-> args,
     log |-> << >>, response |-> NoResponse, rolled_back |-> FALSE,
     committed |-> FALSE, row_id |-> 0, at |-> -1, counted |-> -1,
     faulted |-> FALSE, db |-> "open", txn |-> FALSE]

InFlight == {s \in Slots : reqs[s].pc # "idle"}

Done(s) == reqs[s].pc = "done"

\* get_db's finally: db.close() ends the transaction in progress, if any,
\* and gives the connection back.
close(r) ==
    [r EXCEPT !.db = IF @ = "open" THEN "closed" ELSE @, !.txn = FALSE]

\* A dependency that yields the session and has no finally.
Respond_unscoped(r, response) ==
    [r EXCEPT !.pc = "done", !.response = response]

\* The handler ends: the response leaves, the scoped session is closed.
Respond(r, response) ==
    [close(r) EXCEPT !.pc = "done", !.response = response]

\* A stage of the handler runs; every stage but the limiter's talks to the
\* store, which begins a transaction if none is open.
Stage(r, name) ==
    [r EXCEPT !.log = Append(@, name), !.txn = (@ \/ name # "limit")]

\* A storage call raised.
Raise(r) == [r EXCEPT !.faulted = TRUE]

\* except ...: db.rollback()
Rollback(r) == [r EXCEPT !.rolled_back = TRUE, !.txn = FALSE]

(***************************************************************************)
(* The store.  A row's primary key is its position: player_id and          *)
(* session_id are generated 1, 2, 3, ...                                   *)
(***************************************************************************)
Player(first_name, last_name, passcode) ==
    [first_name |-> first_name, last_name |-> last_name, passcode |-> passcode]

GameSession(player_id, date_time) ==
    [player_id |-> player_id, date_time |-> date_time]

\* The columns of the table of each exercise.
Columns(kind) ==
    CASE kind = "breathing_techniques" ->
             {"session_id", "play_or_pass", "breaths"}
      [] kind = "stretch_and_reach" ->
             {"session_id", "play_or_pass", "total_stars", "highest_level",
             "missed_stars_location"}
      [] kind = "light_hands" ->
             {"session_id", "play_or_pass", "two_one_left_score",
             "two_one_right_score", "two_two_left_score",
             "two_two_right_score", "three_three_left_score",
             "three_three_right_score"}
      [] kind = "rhythm_recovery" ->
             {"session_id", "play_or_pass", "thumb_left_time",
             "index_left_time", "middle_left_time", "ring_left_time",
             "little_left_time", "thumb_right_time", "index_right_time",
             "middle_right_time", "ring_right_time", "little_right_time",
             "thumb_left_skipped", "index_left_skipped",
             "middle_left_skipped", "ring_left_skipped",
             "little_left_skipped", "thumb_right_skipped",
             "index_right_skipped", "middle_right_skipped",
             "ring_right_skipped", "little_right_skipped"}
      [] kind = "draw_shapes" ->
             {"session_id", "play_or_pass", "small_left_time",
             "small_right_time", "medium_left_time", "medium_right_time",
             "large_left_time", "large_right_time"}
      [] kind = "line_walk" ->
             {"session_id", "play_or_pass", "forward_time", "backward_time",
             "crab_right_time", "crab_left_time", "out_of_line_count"}
      [] kind = "balloons" ->
             {"session_id", "play_or_pass", "waist_left_score",
             "waist_right_score", "chest_left_score", "chest_right_score",
             "head_left_score", "head_right_score", "knees_left_score",
             "knees_right_score", "feet_left_score", "feet_right_score"}

NULL == "NULL"

\* A row constructor that leaves the flag to a column default.
ResultRow_defaulted(kind, session_id, kwargs) ==
    [c \in Columns(kind) |->
        IF c = "session_id" THEN session_id
        ELSE IF c = "play_or_pass" THEN FALSE
        ELSE IF c \in DOMAIN kwargs THEN kwargs[c] ELSE NULL]

\* models.<Exercise>(session_id=session_id, **kwargs): a column without a
\* keyword stays NULL.
ResultRow(kind, session_id, kwargs) ==
    [c \in Columns(kind) |->
        IF c = "session_id" THEN session_id
        ELSE IF c \in DOMAIN kwargs THEN kwargs[c] ELSE NULL]

\* The constructor raises TypeError for a keyword that is no column.
Constructible(kind, kwargs) == DOMAIN kwargs \subseteq Columns(kind)

PlayerExists(player_id) == player_id \in 1 .. Len(players)

SessionExists(session_id) == session_id \in 1 .. Len(game_sessions)

\* A key shared by the seven tables: one result per session of any exercise.
HasResult_any_kind(kind, session_id) ==
    \E k \in ExerciseKinds : \E row \in results[k] : row.session_id = session_id

HasResult(kind, session_id) ==
    \E row \in results[kind] : row.session_id = session_id

RECURSIVE SumRows(_)
SumRows(kinds) ==
    IF kinds = {} THEN 0
    ELSE LET k == CHOOSE x \in kinds : TRUE
         IN  Cardinality(results[k]) + SumRows(kinds \ {k})

NumResultRows == SumRows(ExerciseKinds)

(***************************************************************************)
(* The store as start-up finds it: create_all only creates what is absent, *)
(* so rows written before this process started are there.  Either the      *)
(* store is empty, or one player holds SeedSessions sessions of this       *)
(* minute.                                                                 *)
(***************************************************************************)
SeedPlayer == Player("Ann", "Lee", hashpw(Str(1000), "s1"))

SeedRows == [i \in 1 .. SeedSessions |-> GameSession(1, 0)]

Seeded == Len(game_sessions) >= SeedSessions /\ SeedSessions > MaxNewSessions

\* Past the bound of the model the store refuses the insert, as it may
\* refuse any insert.
PlayersFull == Len(players) >= MaxPlayers

SessionsFull ==
    Len(game_sessions) >= (IF Seeded THEN SeedSessions ELSE 0) + MaxNewSessions

ResultsFull == NumResultRows >= MaxResultRows

Init ==
    /\ \/ players = << >> /\ game_sessions = << >>
       \/ players = <<SeedPlayer>> /\ game_sessions = SeedRows
    /\ results = [k \in ExerciseKinds |-> {}]
    /\ hits = [route \in {"create_player", "create_game_session"} |->
                   [a \in Addrs |-> 0]]
    /\ admitted = hits
    /\ now = 0
    /\ reqs = [s \in Slots \cup Racers |-> Idle]

Set(s, r) == reqs' = [reqs EXCEPT ![s] = r]

(***************************************************************************)
(* slowapi's limiter, default strategy (fixed window, in-memory counters): *)
(* a hit increments the counter of (route, address) for the current minute *)
(* and is admitted while the counter does not exceed the route's limit.    *)
(* The counter saturates one past the limit, where every hit is refused.   *)
(***************************************************************************)
Limit(route) == IF route = "create_player" THEN PlayerLimit ELSE SessionLimit

\* A limiter whose counter is shared by the addresses of a route.
Admitted_any_address(route, addr) ==
    LET other == CHOOSE a \in Addrs : a # addr
    IN  hits[route][addr] + hits[route][other] + 1 <= Limit(route)

Admitted(route, addr) == hits[route][addr] + 1 <= Limit(route)

Hit(route, addr) ==
    /\ hits' = [hits EXCEPT ![route][addr] =
                    IF @ > Limit(route) THEN @ ELSE @ + 1]
    /\ admitted' = [admitted EXCEPT ![route][addr] =
                        IF Admitted(route, addr) THEN @ + 1 ELSE @]

(***************************************************************************)
(* GET /: no limiter, no storage session.                                  *)
(***************************************************************************)
read_root(s) ==
    /\ reqs[s].pc = "idle"
    /\ Set(s, Respond([NewRequest("read_root", "", << >>) EXCEPT !.db = "none"],
                      Ok("Hello World")))
    /\ UNCHANGED <<players, game_sessions, results, hits, admitted, now>>

(***************************************************************************)
(* POST /create_player                                                     *)
(***************************************************************************)
\* PlayerCreate: Field(ge=1000, le=9999).
ValidPasscode(passcode) == MinPasscode <= passcode /\ passcode <= MaxPasscode

\* The body is validated, then the limiter is hit, then the handler runs.
create_player_request(s, addr, first_name, last_name, passcode) ==
    /\ reqs[s].pc = "idle"
    /\ LET r == NewRequest("create_player", addr,
                    [first_name |-> first_name, last_name |-> last_name,
                     passcode |-> passcode])
       IN  IF ~ValidPasscode(passcode)
           THEN /\ Set(s, Respond(r, ValidationError))
                /\ UNCHANGED <<hits, admitted>>
           ELSE /\ Hit("create_player", addr)
                /\ IF Admitted("create_player", addr)
                   THEN Set(s, [Stage(r, "limit") EXCEPT !.pc = "commit"])
                   ELSE Set(s, Respond(Stage(r, "limit"), TooManyRequests))
    /\ UNCHANGED <<players, game_sessions, results, now>>

\* hashpw with a fresh salt, db.add, db.commit; except: rollback, 500.
create_player_commit(s, salt, fault) ==
    LET r == reqs[s] IN
    /\ r.pc = "commit" /\ r.route = "create_player"
    /\ IF fault
       THEN /\ Set(s, Respond(Rollback(Raise(Stage(r, "commit"))),
                              DatabaseError))
            /\ UNCHANGED players
       ELSE /\ players' = Append(players,
                    Player(r.args.first_name, r.args.last_name,
                           hashpw(Str(r.args.passcode), salt)))
            /\ Set(s, [Stage(r, "commit") EXCEPT !.pc = "refresh",
                          !.committed = TRUE, !.txn = FALSE,
                          !.row_id = Len(players) + 1])
    /\ UNCHANGED <<game_sessions, results, hits, admitted, now>>

\* db.refresh(db_player), return db_player.player_id; except: rollback, 500.
create_player_refresh(s, fault) ==
    LET r == reqs[s] IN
    /\ r.pc = "refresh" /\ r.route = "create_player"
    /\ IF fault
       THEN Set(s, Respond(Rollback(Raise(Stage(r, "refresh"))),
                           DatabaseError))
       ELSE Set(s, Respond(Stage(r, "refresh"), Ok(r.row_id)))
    /\ UNCHANGED <<players, game_sessions, results, hits, admitted, now>>

(***************************************************************************)
(* POST /create_game_session                                               *)
(***************************************************************************)
\* What the request's storage session reads.
Db == [players |-> players, game_sessions |-> game_sessions]

\* A verification that reports a missing player as a wrong passcode.
verify_player_passcode_uniform(player_id, passcode, db) ==
    IF player_id \notin 1 .. Len(db.players) THEN IncorrectPasscode
    ELSE IF ~checkpw(Str(passcode), db.players[player_id].passcode)
         THEN IncorrectPasscode
         ELSE Ok(player_id)

\* The response verify_player_passcode ends in: 404, 401 or the player_id.
verify_player_passcode(player_id, passcode, db) ==
    IF player_id \notin 1 .. Len(db.players) THEN PlayerNotFound
    ELSE IF ~checkpw(Str(passcode), db.players[player_id].passcode)
         THEN IncorrectPasscode
         ELSE Ok(player_id)

\* Rows of the player with date_time > hour_ago.
session_count_exclusive(player_id, hour_ago, db) ==
    Cardinality({i \in 1 .. Len(db.game_sessions) :
                    /\ db.game_sessions[i].player_id = player_id
                    /\ db.game_sessions[i].date_time > hour_ago})

\* A count without the player filter: rows of any player since hour_ago.
session_count_all_players(player_id, hour_ago, db) ==
    Cardinality({i \in 1 .. Len(db.game_sessions) :
                    db.game_sessions[i].date_time >= hour_ago})

\* Rows of the player with date_time >= hour_ago.
session_count(player_id, hour_ago, db) ==
    Cardinality({i \in 1 .. Len(db.game_sessions) :
                    /\ db.game_sessions[i].player_id = player_id
                    /\ db.game_sessions[i].date_time >= hour_ago})

\* A handler that asks the quota before it verifies the passcode.
create_game_session_quota_first(player_id, passcode, db, utcnow) ==
    IF session_count(player_id, utcnow - Hour, db) >= SessionQuota
    THEN TooManySessions
    ELSE LET v == verify_player_passcode(player_id, passcode, db)
         IN  IF v.status # 200 THEN v ELSE Ok(Len(db.game_sessions) + 1)

\* The handler run alone on store db at time utcnow, every storage call
\* succeeding: the response it returns.
create_game_session(player_id, passcode, db, utcnow) ==
    LET v == verify_player_passcode(player_id, passcode, db)
    IN  IF v.status # 200 THEN v
        ELSE IF session_count(player_id, utcnow - Hour, db) >= SessionQuota
             THEN TooManySessions
             ELSE Ok(Len(db.game_sessions) + 1)

\* The limiter is hit before the handler runs.
create_game_session_request(s, addr, player_id, passcode) ==
    /\ reqs[s].pc = "idle"
    /\ LET r == Stage(NewRequest("create_game_session", addr,
                        [player_id |-> player_id, passcode |-> passcode]),
                      "limit")
       IN  /\ Hit("create_game_session", addr)
           /\ IF Admitted("create_game_session", addr)
              THEN Set(s, [r EXCEPT !.pc = "verify"])
              ELSE Set(s, Respond(r, TooManyRequests))
    /\ UNCHANGED <<players, game_sessions, results, now>>

\* A handler that goes on to the quota query whatever the verification said.
create_game_session_verify_unchecked(s, fault) ==
    LET r == Stage(reqs[s], "verify") IN
    /\ reqs[s].pc = "verify" /\ r.route = "create_game_session"
    /\ IF fault THEN Set(s, Respond(Raise(r), InternalServerError))
       ELSE Set(s, [r EXCEPT !.pc = "count"])
    /\ UNCHANGED <<players, game_sessions, results, hits, admitted, now>>

\* verify_player_passcode runs outside the handler's try block: a failing
\* query is translated by nobody.
create_game_session_verify(s, fault) ==
    LET r == Stage(reqs[s], "verify")
        v == verify_player_passcode(r.args.player_id, r.args.passcode, Db)
    IN
    /\ reqs[s].pc = "verify" /\ r.route = "create_game_session"
    /\ IF fault THEN Set(s, Respond(Raise(r), InternalServerError))
       ELSE IF v.status # 200 THEN Set(s, Respond(r, v))
       ELSE Set(s, [r EXCEPT !.pc = "count"])
    /\ UNCHANGED <<players, game_sessions, results, hits, admitted, now>>

\* A quota that rejects only when more than 20 rows are counted.
create_game_session_count_lenient(s, fault) ==
    LET r == Stage(reqs[s], "count")
        n == session_count(r.args.player_id, now - Hour, Db)
    IN
    /\ reqs[s].pc = "count" /\ r.route = "create_game_session"
    /\ IF fault
       THEN Set(s, Respond(Rollback(Raise(r)), DatabaseError))
       ELSE IF n > SessionQuota
       THEN Set(s, Respond([r EXCEPT !.at = now, !.counted = n],
                           TooManySessions))
       ELSE Set(s, [r EXCEPT !.pc = "commit", !.at = now, !.counted = n])
    /\ UNCHANGED <<players, game_sessions, results, hits, admitted, now>>

\* The quota query; HTTPException is re-raised, anything else: rollback, 500.
create_game_session_count(s, fault) ==
    LET r == Stage(reqs[s], "count")
        n == session_count(r.args.player_id, now - Hour, Db)
    IN
    /\ reqs[s].pc = "count" /\ r.route = "create_game_session"
    /\ IF fault
       THEN Set(s, Respond(Rollback(Raise(r)), DatabaseError))
       ELSE IF n >= SessionQuota
       THEN Set(s, Respond([r EXCEPT !.at = now, !.counted = n],
                           TooManySessions))
       ELSE Set(s, [r EXCEPT !.pc = "commit", !.at = now, !.counted = n])
    /\ UNCHANGED <<players, game_sessions, results, hits, admitted, now>>

\* db.add(new_session), db.commit(): date_time defaults to the store's now().
create_game_session_commit(s, fault) ==
    LET r == Stage(reqs[s], "commit") IN
    /\ reqs[s].pc = "commit" /\ r.route = "create_game_session"
    /\ IF fault
       THEN /\ Set(s, Respond(Rollback(Raise(r)), DatabaseError))
            /\ UNCHANGED game_sessions
       ELSE /\ game_sessions' =
                   Append(game_sessions, GameSession(r.args.player_id, now))
            /\ Set(s, [r EXCEPT !.pc = "return",
                          !.committed = TRUE, !.txn = FALSE,
                          !.row_id = Len(game_sessions) + 1])
    /\ UNCHANGED <<players, results, hits, admitted, now>>

\* return new_session.session_id: the commit expired the object, so the
\* attribute is read back from the store.
create_game_session_return(s, fault) ==
    LET r == Stage(reqs[s], "return") IN
    /\ reqs[s].pc = "return" /\ r.route = "create_game_session"
    /\ IF fault
       THEN Set(s, Respond(Rollback(Raise(r)), DatabaseError))
       ELSE Set(s, Respond(r, Ok(r.row_id)))
    /\ UNCHANGED <<players, game_sessions, results, hits, admitted, now>>

(***************************************************************************)
(* POST /game_sessions/{session_id}/create_<exercise>: seven handlers of   *)
(* one shape, one table each.                                              *)
(***************************************************************************)
\* except Exception: db.rollback(), raise 500.  HTTPException is an
\* Exception, so the handler's own 404 takes this road too.
exercise_except(raised) == DatabaseError

\* No limiter on these routes; the handler runs at once.
create_exercise_request(s, kind, session_id, data) ==
    /\ reqs[s].pc = "idle"
    /\ Set(s, [NewRequest(kind, "", [session_id |-> session_id, data |-> data])
                  EXCEPT !.pc = "lookup"])
    /\ UNCHANGED <<players, game_sessions, results, hits, admitted, now>>

\* A handler that inserts without looking the session up.
create_exercise_lookup_unchecked(s, fault) ==
    LET r == Stage(reqs[s], "lookup") IN
    /\ reqs[s].pc = "lookup" /\ r.route \in ExerciseKinds
    /\ IF fault
       THEN Set(s, Respond(Rollback(Raise(r)), DatabaseError))
       ELSE Set(s, [r EXCEPT !.pc = "commit"])
    /\ UNCHANGED <<players, game_sessions, results, hits, admitted, now>>

\* if not db.query(GameSession).filter(session_id == ...).first(): raise 404
create_exercise_lookup(s, fault) ==
    LET r == Stage(reqs[s], "lookup") IN
    /\ reqs[s].pc = "lookup" /\ r.route \in ExerciseKinds
    /\ IF fault
       THEN Set(s, Respond(Rollback(Raise(r)), DatabaseError))
       ELSE IF ~SessionExists(r.args.session_id)
       THEN Set(s, Respond(Rollback(r), exercise_except(SessionNotFound)))
       ELSE Set(s, [r EXCEPT !.pc = "commit"])
    /\ UNCHANGED <<players, game_sessions, results, hits, admitted, now>>

\* The insert into a table that has no primary key on session_id.
create_exercise_commit_unkeyed(s, fault) ==
    LET r == Stage(reqs[s], "commit")
        kind == r.route
    IN
    /\ reqs[s].pc = "commit" /\ kind \in ExerciseKinds
    /\ IF fault
       THEN /\ Set(s, Respond(Rollback(Raise(r)), DatabaseError))
            /\ UNCHANGED results
       ELSE /\ results' = [results EXCEPT ![kind] =
                   @ \cup {ResultRow(kind, r.args.session_id,
                                     data_dict(kind, r.args.data))}]
            /\ Set(s, Respond([r EXCEPT !.committed = TRUE, !.txn = FALSE,
                                  !.row_id = r.args.session_id],
                              Ok("record created")))
    /\ UNCHANGED <<players, game_sessions, hits, admitted, now>>

\* db.merge(row) in place of db.add(row): the row of the session is replaced.
create_exercise_commit_merge(s, fault) ==
    LET r == Stage(reqs[s], "commit")
        kind == r.route
    IN
    /\ reqs[s].pc = "commit" /\ kind \in ExerciseKinds
    /\ IF fault
       THEN /\ Set(s, Respond(Rollback(Raise(r)), DatabaseError))
            /\ UNCHANGED results
       ELSE /\ results' = [results EXCEPT ![kind] =
                   {row \in @ : row.session_id # r.args.session_id}
                   \cup {ResultRow(kind, r.args.session_id,
                                   data_dict(kind, r.args.data))}]
            /\ Set(s, Respond([r EXCEPT !.committed = TRUE, !.txn = FALSE,
                                  !.row_id = r.args.session_id],
                              Ok("record created")))
    /\ UNCHANGED <<players, game_sessions, hits, admitted, now>>

\* db.add(row), db.commit(): session_id is the table's primary key, so a
\* second row for the session is refused by the store.
create_exercise_commit(s, fault) ==
    LET r == Stage(reqs[s], "commit")
        kind == r.route
    IN
    /\ reqs[s].pc = "commit" /\ kind \in ExerciseKinds
    /\ IF \/ fault
          \/ ~Constructible(kind, data_dict(kind, r.args.data))
          \/ HasResult(kind, r.args.session_id)
       THEN /\ Set(s, Respond(Rollback(IF fault THEN Raise(r) ELSE r),
                              DatabaseError))
            /\ UNCHANGED results
       ELSE /\ results' = [results EXCEPT ![kind] =
                   @ \cup {ResultRow(kind, r.args.session_id,
                                     data_dict(kind, r.args.data))}]
            /\ Set(s, Respond([r EXCEPT !.committed = TRUE, !.txn = FALSE,
                                  !.row_id = r.args.session_id],
                              Ok("record created")))
    /\ UNCHANGED <<players, game_sessions, hits, admitted, now>>

(***************************************************************************)
(* The environment: the response is delivered, the clock advances.         *)
(***************************************************************************)
Deliver(s) ==
    /\ Done(s)
    /\ Set(s, Idle)
    /\ UNCHANGED <<players, game_sessions, results, hits, admitted, now>>

\* The request is cancelled while its handler is between two stages: no
\* except clause of the handler catches the cancellation, get_db's finally
\* runs, the client gets no response.
abort(s) ==
    /\ reqs[s].pc \notin {"idle", "done"}
    /\ Set(s, Respond(reqs[s], NoResponse))
    /\ UNCHANGED <<players, game_sessions, results, hits, admitted, now>>

\* A later minute: the counters of the minute that ended expire.
Tick(t) ==
    /\ t > now
    /\ now' = t
    /\ hits' = [route \in DOMAIN hits |-> [a \in Addrs |-> 0]]
    /\ admitted' = hits'
    /\ UNCHANGED <<players, game_sessions, results, reqs>>

(***************************************************************************)
(* Traffic.  Every specification below is the same handlers under a        *)
(* different load: which routes are called, from which addresses, how many *)
(* handlers run at once, and whether the clock moves.                      *)
(***************************************************************************)
BusyAddr == "10.0.0.1"

\* The busy client sends at will; any other sends QuietHits a minute.
MaySend(route, addr) == addr = BusyAddr \/ hits[route][addr] < QuietHits

\* queries and commits say which storage calls may fail under the load:
\* BOOLEAN when each may fail or succeed, {TRUE} when the store is down.
PlayerRoute(slots, addrs, passcodes, salts, queries, commits) ==
    \/ \E s \in slots, addr \in addrs, passcode \in passcodes :
           /\ MaySend("create_player", addr)
           /\ create_player_request(s, addr, "Ann", "Lee", passcode)
    \/ \E s \in slots, salt \in salts,
          fault \in (IF PlayersFull THEN {TRUE} ELSE commits) :
           create_player_commit(s, salt, fault)
    \/ \E s \in slots, fault \in queries : create_player_refresh(s, fault)

SessionRoute(slots, addrs, player_ids, passcodes, queries, commits) ==
    \/ \E s \in slots, addr \in addrs, player_id \in player_ids,
          passcode \in passcodes :
           /\ MaySend("create_game_session", addr)
           /\ create_game_session_request(s, addr, player_id, passcode)
    \/ \E s \in slots, fault \in queries : create_game_session_verify(s, fault)
    \/ \E s \in slots, fault \in queries : create_game_session_count(s, fault)
    \/ \E s \in slots,
          fault \in (IF SessionsFull THEN {TRUE} ELSE commits) :
           create_game_session_commit(s, fault)
    \/ \E s \in slots, fault \in queries : create_game_session_return(s, fault)

ExerciseRoutes(slots) ==
    \/ \E s \in slots, kind \in ExerciseKinds, session_id \in SessionIds,
          data \in DataInputs :
           create_exercise_request(s, kind, session_id, data)
    \/ \E s \in slots, fault \in BOOLEAN : create_exercise_lookup(s, fault)
    \/ \E s \in slots, fault \in (IF ResultsFull THEN {TRUE} ELSE BOOLEAN) :
           create_exercise_commit(s, fault)

\* The exercise routes for chosen exercises, bodies and storage behaviour.
ExerciseRoute(slots, kinds, datas, queries, commits) ==
    \/ \E s \in slots, kind \in kinds, session_id \in SessionIds,
          data \in datas :
           create_exercise_request(s, kind, session_id, data)
    \/ \E s \in slots, fault \in queries : create_exercise_lookup(s, fault)
    \/ \E s \in slots, fault \in (IF ResultsFull THEN {TRUE} ELSE commits) :
           create_exercise_commit(s, fault)

\* Registration and session creation by a few quiet clients, one request
\* at a time, within one minute.
NextAuth ==
    \/ PlayerRoute({1}, Addrs \ {BusyAddr}, BodyPasscodes, Salts, BOOLEAN, BOOLEAN)
    \/ SessionRoute({1}, Addrs \ {BusyAddr}, PlayerIds, QueryPasscodes,
                    BOOLEAN, BOOLEAN)
    \/ Deliver(1)

SpecAuth == Init /\ [][NextAuth]_vars

\* Session creation over more than an hour, one request at a time.
NextSessions ==
    \/ SessionRoute({1}, Addrs, PlayerIds, QueryPasscodes, BOOLEAN, BOOLEAN)
    \/ Deliver(1)
    \/ \E t \in Times : Tick(t)

SpecSessions == Init /\ [][NextSessions]_vars

\* Both limited routes under load, handlers running at once, over two
\* minutes, while the store answers queries and refuses every insert.
NextThrottle ==
    \/ \E s \in Slots, addr \in Addrs :
           /\ MaySend("create_player", addr)
           /\ create_player_request(s, addr, "Ann", "Lee", MinPasscode)
    \/ \E s \in Slots : create_player_commit(s, "s1", TRUE)
    \/ \E s \in Slots, addr \in Addrs :
           /\ MaySend("create_game_session", addr)
           /\ create_game_session_request(s, addr, 1, MinPasscode)
    \/ \E s \in Slots : create_game_session_verify(s, FALSE)
    \/ \E s \in Slots : create_game_session_count(s, FALSE)
    \/ \E s \in Slots : create_game_session_commit(s, TRUE)
    \/ \E s \in Slots : Deliver(s)
    \/ Tick(1)

SpecThrottle == Init /\ [][NextThrottle]_vars

\* Exercise results, handlers running at once.
NextResults ==
    \/ ExerciseRoutes(Slots)
    \/ \E s \in Slots : Deliver(s)

SpecResults == Init /\ [][NextResults]_vars

\* Each of the seven exercises with each body, one request at a time, any
\* storage call failing or not.
NextKinds ==
    \/ ExerciseRoute({1}, ExerciseKinds, DataInputs, BOOLEAN, BOOLEAN)
    \/ Deliver(1)

SpecKinds == Init /\ [][NextKinds]_vars

\* Every route, handlers running at once, within one minute, from a quiet
\* client; the store answers every call until it is full.
NextStore ==
    \/ \E s \in Slots : read_root(s)
    \/ PlayerRoute(Slots, Addrs \ {BusyAddr}, {MinPasscode, MaxPasscode},
                   {"s1"}, {FALSE}, {FALSE})
    \/ SessionRoute(Slots, Addrs \ {BusyAddr}, 1 .. MaxPlayers,
                    {MinPasscode, MaxPasscode}, {FALSE}, {FALSE})
    \/ ExerciseRoute(Slots, {"breathing_techniques", "rhythm_recovery"},
                     DataInputs, {FALSE}, {FALSE})
    \/ \E s \in Slots : Deliver(s)

SpecStore == Init /\ [][NextStore]_vars

\* The next stage of the handler of slot s, whatever the store answers.
Handler(s) ==
    \/ \E fault \in (IF PlayersFull THEN {TRUE} ELSE BOOLEAN) :
           create_player_commit(s, "s1", fault)
    \/ \E fault \in BOOLEAN : create_player_refresh(s, fault)
    \/ \E fault \in BOOLEAN : create_game_session_verify(s, fault)
    \/ \E fault \in BOOLEAN : create_game_session_count(s, fault)
    \/ \E fault \in (IF SessionsFull THEN {TRUE} ELSE BOOLEAN) :
           create_game_session_commit(s, fault)
    \/ \E fault \in BOOLEAN : create_game_session_return(s, fault)
    \/ \E fault \in BOOLEAN : create_exercise_lookup(s, fault)
    \/ \E fault \in (IF ResultsFull THEN {TRUE} ELSE BOOLEAN) :
           create_exercise_commit(s, fault)

\* Requests of every route from a quiet client, handlers running at once,
\* any storage call failing or not, any request cancelled between stages.
NextRelease ==
    \/ \E s \in Slots : read_root(s)
    \/ \E s \in Slots, passcode \in {MinPasscode - 1, MinPasscode} :
           /\ MaySend("create_player", "10.0.0.2")
           /\ create_player_request(s, "10.0.0.2", "Ann", "Lee", passcode)
    \/ \E s \in Slots, player_id \in {1, MaxPlayers + 1},
          passcode \in {MinPasscode, MaxPasscode} :
           /\ MaySend("create_game_session", "10.0.0.2")
           /\ create_game_session_request(s, "10.0.0.2", player_id, passcode)
    \/ \E s \in Slots, session_id \in SessionIds :
           create_exercise_request(s, "line_walk", session_id,
                                   [play_or_pass |-> TRUE, measures |-> 12])
    \/ \E s \in Slots : Handler(s)
    \/ \E s \in Slots : abort(s)
    \/ \E s \in Slots : Deliver(s)

\* A handler that has begun goes on: each storage call returns or raises.
SpecRelease ==
    Init /\ [][NextRelease]_vars /\ \A s \in Slots : WF_vars(Handler(s))

\* A burst of correctly authenticated create_game_session requests for
\* player 1 from both addresses within one minute, the store answering.
NextRace ==
    \/ \E s \in Racers, addr \in Addrs :
           /\ MaySend("create_game_session", addr)
           /\ create_game_session_request(s, addr, 1, MinPasscode)
    \/ \E s \in Racers : create_game_session_verify(s, FALSE)
    \/ \E s \in Racers : create_game_session_count(s, FALSE)
    \/ \E s \in Racers : create_game_session_commit(s, FALSE)
    \/ \E s \in Racers : create_game_session_return(s, FALSE)
    \/ \E s \in Racers : Deliver(s)

SpecRace == Init /\ [][NextRace]_vars

(***************************************************************************)
(* The claims.                                                             *)
(***************************************************************************)
ExerciseDone(s) == Done(s) /\ reqs[s].route \in ExerciseKinds

(* C1: an exercise result submitted for a session_id that has no           *)
(* GameSession row fails with NotFound (404, session not found), with no   *)
(* other error kind, and adds no row to any table.  (Storage faults        *)
(* aside: the request's own storage calls all succeeded.)                  *)
C1_MissingSessionIsNotFound ==
    \A s \in Slots :
        (/\ ExerciseDone(s)
         /\ ~SessionExists(reqs[s].args.session_id)
         /\ ~reqs[s].faulted)
        => /\ reqs[s].response = SessionNotFound
           /\ ~reqs[s].committed

SessionRequest(s) ==
    reqs[s].pc # "idle" /\ reqs[s].route = "create_game_session"

\* The player's session rows created in the 60 minutes up to t.
Recent(player_id, t) ==
    {i \in 1 .. Len(game_sessions) :
        /\ game_sessions[i].player_id = player_id
        /\ game_sessions[i].date_time <= t
        /\ t - game_sessions[i].date_time <= Hour}

\* What the request found: the recent rows other than its own.
Already(s) ==
    Cardinality(Recent(reqs[s].args.player_id, reqs[s].at) \ {reqs[s].row_id})

QuotaRejected(s) == Done(s) /\ reqs[s].response = TooManySessions

(* C2: with requests handled one at a time, a correctly authenticated      *)
(* create_game_session is rejected with 429 and creates no session exactly *)
(* when the player already has 20 or more sessions created in the trailing *)
(* 60 minutes, and is admitted otherwise; so no player ever has more than  *)
(* 20 sessions inside a trailing 60-minute window.                         *)
C2_SlidingHourQuota ==
    /\ \A s \in Slots :
           (SessionRequest(s) /\ reqs[s].at >= 0) =>
               /\ QuotaRejected(s) <=> Already(s) >= SessionQuota
               /\ QuotaRejected(s) => ~reqs[s].committed
               /\ (Done(s) /\ ~QuotaRejected(s) /\ ~reqs[s].faulted) =>
                      /\ reqs[s].committed
                      /\ reqs[s].response = Ok(reqs[s].row_id)
    /\ \A p \in PlayerIds, t \in Times :
           Cardinality(Recent(p, t)) <= SessionQuota

\* A 21st attempt is refused while the 20 sessions are exactly an hour old.
C2_Witness ==
    \E s \in Slots :
        /\ SessionRequest(s) /\ QuotaRejected(s)
        /\ reqs[s].at = Hour
        /\ Already(s) = SessionQuota

\* Once the 20 sessions are more than an hour old the attempt is admitted.
C2_AdmittedAgain ==
    \E s \in Slots :
        /\ SessionRequest(s) /\ Done(s) /\ reqs[s].response.status = 200
        /\ reqs[s].at > Hour
        /\ Cardinality({i \in 1 .. Len(game_sessions) :
                           game_sessions[i].player_id = reqs[s].args.player_id})
               > SessionQuota

SessionStages == <<"limit", "verify", "count", "commit", "return">>

IsPrefix(a, b) == Len(a) <= Len(b) /\ a = SubSeq(b, 1, Len(a))

(* C3: create_game_session runs its stages in the order address limit,     *)
(* passcode verification, quota query, insert/commit, and a stage that     *)
(* fails ends the request: a throttled request has run nothing but the     *)
(* limiter, a request that failed verification (404, 401) has run no quota *)
(* query, a request refused by the quota has run no insert, and none of    *)
(* them has written a row.                                                 *)
C3_StageOrder ==
    \A s \in Slots :
        SessionRequest(s) =>
            LET r == reqs[s] IN
            /\ IsPrefix(r.log, SessionStages)
            /\ (Done(s) /\ r.response = TooManyRequests) =>
                   r.log = <<"limit">> /\ ~r.committed
            /\ (Done(s) /\ r.response \in {PlayerNotFound, IncorrectPasscode}) =>
                   r.log = <<"limit", "verify">> /\ ~r.committed
            /\ QuotaRejected(s) =>
                   r.log = <<"limit", "verify", "count">> /\ ~r.committed
            /\ (Done(s) /\ r.faulted /\ r.log[Len(r.log)] # "return") =>
                   ~r.committed
            /\ Len(r.log) >= 3 =>
                   verify_player_passcode(r.args.player_id, r.args.passcode, Db)
                       = Ok(r.args.player_id)
            /\ Len(r.log) >= 4 => r.counted \in 0 .. SessionQuota - 1
            /\ r.committed => Len(r.log) >= 4

\* An eleventh request of the minute is throttled while another request of
\* the same address had gone as far as the insert.
C3_Witness ==
    /\ \E s \in Slots :
           /\ SessionRequest(s) /\ Done(s)
           /\ reqs[s].response = TooManyRequests
           /\ reqs[s].log = <<"limit">>
    /\ Len(game_sessions) > SeedSessions

\* The request does not carry the correct passcode of player x.
Unauthenticated(x, passcode, db) ==
    ~(/\ x \in 1 .. Len(db.players)
      /\ checkpw(Str(passcode), db.players[x].passcode))

\* The store without the last k sessions of player x.
RECURSIVE DropSessions(_, _, _)
DropSessions(rows, x, k) ==
    IF k = 0 \/ rows = << >> THEN rows
    ELSE LET n == Len(rows) IN
         IF rows[n].player_id = x
         THEN DropSessions(SubSeq(rows, 1, n - 1), x, k - 1)
         ELSE Append(DropSessions(SubSeq(rows, 1, n - 1), x, k), rows[n])

FewerSessions(x, k) ==
    [Db EXCEPT !.game_sessions = DropSessions(game_sessions, x, k)]

\* The store as it was before its last player registered.
WithoutLastPlayer ==
    [Db EXCEPT !.players = SubSeq(players, 1, Len(players) - 1)]

NoSessionsOf(x) ==
    \A i \in 1 .. Len(game_sessions) : game_sessions[i].player_id # x

\* The requests the model answered are answered as the handler run alone
\* answers them.
UnauthenticatedAnswers ==
    \A s \in Slots :
        (/\ SessionRequest(s) /\ Done(s) /\ ~reqs[s].faulted
         /\ reqs[s].response # TooManyRequests
         /\ Unauthenticated(reqs[s].args.player_id, reqs[s].args.passcode, Db))
        => reqs[s].response =
               create_game_session(reqs[s].args.player_id,
                                   reqs[s].args.passcode, Db, now)

\* Stores that differ only in how many sessions x has answer alike.
QuotaNotProbed ==
    \A x \in 1 .. Len(players), passcode \in QueryPasscodes,
       k \in 0 .. Len(game_sessions) :
        Unauthenticated(x, passcode, Db) =>
            create_game_session(x, passcode, Db, now) =
                create_game_session(x, passcode, FewerSessions(x, k), now)

\* Stores that differ only in whether x exists answer alike.
ExistenceNotProbed ==
    \A passcode \in QueryPasscodes :
        LET x == Len(players) IN
        (x >= 1 /\ NoSessionsOf(x) /\ Unauthenticated(x, passcode, Db)) =>
            create_game_session(x, passcode, Db, now) =
                create_game_session(x, passcode, WithoutLastPlayer, now)

(* C4 as stated: a caller without player X's correct passcode gets the     *)
(* same response from two stores that differ only in whether X exists, or  *)
(* only in how many recent sessions X has.                                 *)
C4_NoProbe == UnauthenticatedAnswers /\ QuotaNotProbed /\ ExistenceNotProbed

(* C4 as amended: a caller without player X's correct passcode gets the    *)
(* same response (401) from two stores that differ only in how many recent *)
(* sessions the existing player X has; whether X exists does show, as 404  *)
(* against 401.                                                            *)
C4_QuotaNotProbed ==
    /\ UnauthenticatedAnswers
    /\ QuotaNotProbed
    /\ \A passcode \in QueryPasscodes :
           LET x == Len(players) IN
           (x >= 1 /\ Unauthenticated(x, passcode, Db)) =>
               /\ create_game_session(x, passcode, Db, now) = IncorrectPasscode
               /\ create_game_session(x, passcode, WithoutLastPlayer, now)
                      = PlayerNotFound

\* A wrong passcode is answered 401 for a player who is at the quota.
C4_Witness ==
    \E s \in Slots :
        /\ SessionRequest(s) /\ Done(s)
        /\ reqs[s].response = IncorrectPasscode
        /\ session_count(reqs[s].args.player_id, now - Hour, Db) >= SessionQuota

\* Passcodes tried against a registered player: the registered ones, their
\* neighbours, and values outside the four digits.
TriedPasscodes ==
    QueryPasscodes \cup {-1000, 0, 100, 1001, 1010, 9990, 9998, 10000}

Registered(s) ==
    /\ reqs[s].pc # "idle"
    /\ reqs[s].route = "create_player"
    /\ reqs[s].committed

RoundTrip ==
    \A s \in Slots :
        Registered(s) =>
            /\ ValidPasscode(reqs[s].args.passcode)
            /\ Done(s) /\ ~reqs[s].faulted =>
                   reqs[s].response = Ok(reqs[s].row_id)
            /\ \A q \in TriedPasscodes :
                   verify_player_passcode(reqs[s].row_id, q, Db) =
                       IF q = reqs[s].args.passcode
                       THEN Ok(reqs[s].row_id)
                       ELSE IncorrectPasscode

HashesKept ==
    /\ Len(players') >= Len(players)
    /\ \A i \in 1 .. Len(players) : players'[i] = players[i]

C6_MissingPlayerIsNotFound ==
    /\ \A s \in Slots :
           (/\ SessionRequest(s) /\ Done(s)
            /\ reqs[s].response # TooManyRequests
            /\ ~PlayerExists(reqs[s].args.player_id))
           => /\ ~reqs[s].faulted => reqs[s].response = PlayerNotFound
              /\ reqs[s].response \notin
                     {IncorrectPasscode, TooManySessions, DatabaseError}
              /\ reqs[s].response.status # 200
              /\ ~reqs[s].committed
              /\ reqs[s].log = <<"limit", "verify">>
    /\ \A x \in PlayerIds, q \in TriedPasscodes :
           ~PlayerExists(x) =>
               create_game_session(x, q, Db, now) = PlayerNotFound

\* A missing player asked for with the passcode of an existing one.
C6_Witness ==
    \E s \in Slots :
        /\ SessionRequest(s) /\ Done(s)
        /\ reqs[s].response = PlayerNotFound
        /\ ~PlayerExists(reqs[s].args.player_id)
        /\ PlayerExists(1)
        /\ verify_player_passcode(1, reqs[s].args.passcode, Db) = Ok(1)

LimitedRoutes == {"create_player", "create_game_session"}

\* Slot s takes in a request that reaches the limiter.
Arrives(s) ==
    /\ reqs[s].pc = "idle"
    /\ reqs'[s].pc # "idle"
    /\ reqs'[s].route \in LimitedRoutes
    /\ reqs'[s].log # << >>

AdmissionCap ==
    \A route \in LimitedRoutes, addr \in Addrs :
        admitted[route][addr] <= Limit(route)

\* A request is throttled exactly when its own address has used up the
\* route's limit in the current minute; then it leaves every counter of
\* admissions as it was.
OwnAddressDecides ==
    \A s \in Slots :
        Arrives(s) =>
            LET route == reqs'[s].route
                addr == reqs'[s].addr
            IN  /\ (reqs'[s].response = TooManyRequests)
                       <=> admitted[route][addr] = Limit(route)
                /\ reqs'[s].response = TooManyRequests =>
                       /\ admitted' = admitted
                       /\ reqs'[s].pc = "done"
                /\ reqs'[s].response # TooManyRequests =>
                       /\ reqs'[s].pc # "done"
                       /\ admitted' = [admitted EXCEPT ![route][addr] = @ + 1]

OneRowPerSession ==
    \A kind \in ExerciseKinds :
        \A a, b \in results[kind] : a.session_id = b.session_id => a = b

\* No step removes or changes a result row, and a submission that finds a
\* row of its exercise for its session ends 500 and writes nothing.
SecondSubmissionRefused ==
    /\ \A kind \in ExerciseKinds : results[kind] \subseteq results'[kind]
    /\ \A s \in Slots :
           (/\ reqs[s].pc = "commit" /\ reqs[s].route \in ExerciseKinds
            /\ reqs'[s].pc = "done"
            /\ HasResult(reqs[s].route, reqs[s].args.session_id))
           => /\ reqs'[s].response = DatabaseError
              /\ reqs'[s].rolled_back
              /\ results' = results

(* C8: every exercise table holds at most one row per session id, also     *)
(* when two submissions of one exercise for one session run at once; the   *)
(* second submission ends 500 and leaves the existing row as it is, and no *)
(* step updates or deletes a result row.                                   *)
C8_OneResultPerSession == []OneRowPerSession /\ [][SecondSubmissionRefused]_vars

\* Two submissions of one exercise for one session with different data ran
\* at once: one is stored, the other refused by the store's key.
C8_Witness ==
    \E s, t \in Slots :
        /\ ExerciseDone(s) /\ ExerciseDone(t)
        /\ reqs[s].route = reqs[t].route
        /\ reqs[s].args.session_id = reqs[t].args.session_id
        /\ reqs[s].args.data # reqs[t].args.data
        /\ reqs[s].response.status = 200
        /\ reqs[t].response = DatabaseError /\ ~reqs[t].faulted
        /\ ResultRow(reqs[s].route, reqs[s].args.session_id,
                     data_dict(reqs[s].route, reqs[s].args.data))
               \in results[reqs[s].route]

WriteRoutes == LimitedRoutes \cup ExerciseKinds

\* The row the request of slot s inserted is in the store.
RowKept(s) ==
    LET r == reqs[s] IN
    /\ r.committed
    /\ IF r.route = "create_player" THEN r.row_id \in 1 .. Len(players)
       ELSE IF r.route = "create_game_session"
       THEN r.row_id \in 1 .. Len(game_sessions)
       ELSE \E row \in results[r.route] : row.session_id = r.row_id

(* C9: a write request that answers success has committed its one row, and *)
(* a write request that answers any error has left no committed row of its *)
(* own in the store, also when the failure comes after the commit.         *)
C9_AtomicWrite ==
    \A s \in Slots :
        (Done(s) /\ reqs[s].route \in WriteRoutes)
        => IF reqs[s].response.status = 200 THEN RowKept(s)
           ELSE ~reqs[s].committed

(* C10: every request in which a storage call failed answers 500 'Database *)
(* error', and answers it after db.rollback() ran for the request; the     *)
(* player lookup of passcode verification is such a storage call.          *)
C10_StorageFailureTranslated ==
    \A s \in Slots :
        (Done(s) /\ reqs[s].faulted)
        => reqs[s].response = DatabaseError /\ reqs[s].rolled_back

\* Slot s holds a request of a route that takes a passcode, and the passcode
\* is outside 1000 .. 9999.
OutOfRange(s) ==
    /\ reqs[s].pc # "idle"
    /\ reqs[s].route \in LimitedRoutes
    /\ ~ValidPasscode(reqs[s].args.passcode)

(* C11: a create_player or create_game_session request whose passcode is   *)
(* outside 1000 .. 9999 is answered 422 at once: neither the limiter nor   *)
(* the verification nor any storage call ran for it, and it wrote no row.  *)
C11_OutOfRangeRejected ==
    \A s \in Slots :
        OutOfRange(s)
        => /\ Done(s)
           /\ reqs[s].response = ValidationError
           /\ reqs[s].log = << >>
           /\ ~reqs[s].committed

\* The rows of the table of the request of slot s that carry its session.
OwnRows(s) ==
    {row \in results[reqs[s].route] :
        row.session_id = reqs[s].args.session_id}

\* A submission that succeeded has one row in its own table.
OneRowEach ==
    \A s \in Slots :
        (ExerciseDone(s) /\ reqs[s].response.status = 200)
        => Cardinality(OwnRows(s)) = 1

\* The insert of a submission whose own table has no row for the session
\* succeeds unless the store fails, whatever the other tables hold, and
\* adds one row to its own table and nothing anywhere else.
OtherKindsIndependent ==
    \A s \in Slots :
        (/\ reqs[s].pc = "commit" /\ reqs[s].route \in ExerciseKinds
         /\ reqs'[s].pc = "done" /\ ~reqs'[s].faulted
         /\ OwnRows(s) = {})
        => /\ reqs'[s].response = Ok("record created")
           /\ results' = [results EXCEPT ![reqs[s].route] =
                  @ \cup {ResultRow(reqs[s].route, reqs[s].args.session_id,
                                    data_dict(reqs[s].route,
                                              reqs[s].args.data))}]

(* C12: for an existing session, submissions of two different exercises    *)
(* both succeed, in either order and when they overlap, each with one row  *)
(* in its own table; a row of one exercise neither blocks nor changes the  *)
(* result of another exercise of the session.                              *)
C12_ExercisesIndependent == []OneRowEach /\ [][OtherKindsIndependent]_vars

\* Two submissions of different exercises for one session have both
\* succeeded and both rows are stored.
C12_Witness ==
    \E s, t \in Slots :
        /\ ExerciseDone(s) /\ ExerciseDone(t)
        /\ reqs[s].route # reqs[t].route
        /\ reqs[s].args.session_id = reqs[t].args.session_id
        /\ reqs[s].response.status = 200 /\ reqs[t].response.status = 200
        /\ OwnRows(s) # {} /\ OwnRows(t) # {}

\* The row of slot s's table is the request of slot s, field by field.
Verbatim(s, row) ==
    LET kind == reqs[s].route
        body == data_dict(kind, reqs[s].args.data)
    IN  /\ DOMAIN row = Fields(kind) \cup {"session_id"}
        /\ row.session_id = reqs[s].args.session_id
        /\ \A f \in Fields(kind) : row[f] = body[f]

(* C13: after a successful exercise write, for each of the seven           *)
(* exercises, the table holds for the session exactly one row, whose       *)
(* session_id is the one of the request path and whose every other column  *)
(* is a field of the body with the supplied value: nothing is transformed, *)
(* defaulted or left out.                                                  *)
C13_StoredVerbatim ==
    \A s \in Slots :
        (ExerciseDone(s) /\ reqs[s].response.status = 200)
        => /\ Cardinality(OwnRows(s)) = 1
           /\ \A row \in OwnRows(s) : Verbatim(s, row)

\* A rhythm_recovery submission (twenty-one fields) with the flag set has
\* succeeded and its row is read back.
C13_Witness ==
    \E s \in Slots :
        /\ ExerciseDone(s) /\ reqs[s].response.status = 200
        /\ reqs[s].route = "rhythm_recovery"
        /\ reqs[s].args.data.play_or_pass
        /\ \E row \in OwnRows(s) :
               row.little_right_skipped = reqs[s].args.data.measures

\* Every session row names a player row, every result row a session row.
References ==
    /\ \A i \in 1 .. Len(game_sessions) :
           PlayerExists(game_sessions[i].player_id)
    /\ \A kind \in ExerciseKinds :
           \A row \in results[kind] : SessionExists(row.session_id)

\* A step that adds a session row is the insert of a create_game_session
\* request that passed the limiter and the verification, for the player it
\* named, and the passcode it carried is that player's.
Provenance ==
    game_sessions' # game_sessions
    => \E s \in Slots :
           /\ reqs[s].pc = "commit" /\ reqs[s].route = "create_game_session"
           /\ reqs'[s].committed
           /\ reqs[s].log = <<"limit", "verify", "count">>
           /\ game_sessions' = Append(game_sessions,
                  GameSession(reqs[s].args.player_id, now))
           /\ PlayerExists(reqs[s].args.player_id)
           /\ checkpw(Str(reqs[s].args.passcode),
                      players[reqs[s].args.player_id].passcode)

(* C14: in every reachable state, under any interleaving of requests,      *)
(* every session row's player_id is the id of a player row and every       *)
(* result row's session_id is the id of a session row; and every session   *)
(* row is inserted by a request that carried the correct passcode of the   *)
(* row's player.                                                           *)
C14_Integrity == []References /\ [][Provenance]_vars

\* Starting from an empty store, a registered player has created session 1
\* with the right passcode, a result for session 1 is stored, and a request
\* with another passcode was refused.
C14_Witness ==
    /\ ~Seeded /\ Len(game_sessions) >= 1
    /\ \E kind \in ExerciseKinds : \E row \in results[kind] : row.session_id = 1
    /\ \E s \in Slots :
           /\ SessionRequest(s) /\ Done(s)
           /\ reqs[s].response = IncorrectPasscode

\* Sequence a is kept in b, position by position: ids keep their rows.
Kept(a, b) == Len(a) <= Len(b) /\ \A i \in 1 .. Len(a) : b[i] = a[i]

\* The route of the request that slot s works on in this step.
Acting(s) ==
    IF reqs'[s] = reqs[s] THEN "none"
    ELSE IF reqs'[s].pc # "idle" THEN reqs'[s].route ELSE reqs[s].route

\* No step changes or removes a row, and a step of a request touches no
\* table but the one of its route.
Frame ==
    /\ Kept(players, players') /\ Kept(game_sessions, game_sessions')
    /\ \A kind \in ExerciseKinds : results[kind] \subseteq results'[kind]
    /\ \A s \in Slots :
           /\ Acting(s) = "create_player"
              => game_sessions' = game_sessions /\ results' = results
           /\ Acting(s) = "create_game_session"
              => players' = players /\ results' = results
           /\ Acting(s) \in ExerciseKinds
              => /\ players' = players /\ game_sessions' = game_sessions
                 /\ \A k \in ExerciseKinds \ {Acting(s)} :
                        results'[k] = results[k]
           /\ Acting(s) = "read_root"
              => /\ players' = players /\ game_sessions' = game_sessions
                 /\ results' = results /\ hits' = hits

(* C15: no operation changes or deletes an existing player, session or     *)
(* result row, so an id keeps naming the same row; create_player leaves    *)
(* sessions and results as they are, create_game_session leaves players    *)
(* and results as they are, an exercise write leaves players, sessions and *)
(* the other exercise tables as they are, and GET / changes nothing.       *)
C15_Frame == [][Frame]_vars

\* Every table has grown since start-up and GET / has been answered, while
\* a second submission for a session that has its row was refused.
C15_Witness ==
    /\ ~Seeded /\ Len(players) >= 1 /\ Len(game_sessions) >= 1
    /\ \E kind \in ExerciseKinds :
           /\ results[kind] # {}
           /\ \E s \in Slots :
                  /\ ExerciseDone(s) /\ reqs[s].route = kind
                  /\ reqs[s].response = DatabaseError
                  /\ OwnRows(s) # {}
                  /\ \A row \in OwnRows(s) : ~Verbatim(s, row)
    /\ \E s \in Slots : Done(s) /\ reqs[s].route = "read_root"

\* Slot s holds a request whose storage session is open.
Open(s) == reqs[s].pc # "idle" /\ reqs[s].db = "open"

\* A request that has ended holds no session and no transaction, and a
\* session is open only while its handler runs.
Released ==
    \A s \in Slots :
        /\ Done(s) => reqs[s].db # "open" /\ ~reqs[s].txn
        /\ Open(s) => reqs[s].pc \notin {"idle", "done"}

(* C16: every request that got a storage session closes it in the end, on  *)
(* every way out of the handler (success, 404, 401, 429, 500, or a         *)
(* cancellation with a transaction open); when the request ends it has no  *)
(* open transaction, and no session stays open between requests.           *)
C16_ScopedRelease ==
    /\ []Released
    /\ \A s \in Slots : Open(s) ~> (reqs[s].pc # "idle" /\ reqs[s].db = "closed")

\* A request was cancelled with a transaction open, and another ended 429
\* at the quota without a rollback of its own: both sessions are closed.
C16_Witness ==
    \E s, t \in Slots :
        /\ Done(s) /\ reqs[s].response = NoResponse
        /\ reqs[s].log # << >> /\ ~reqs[s].rolled_back /\ ~reqs[s].committed
        /\ reqs[s].db = "closed"
        /\ Done(t) /\ reqs[t].response = TooManySessions
        /\ ~reqs[t].rolled_back /\ reqs[t].db = "closed"

\* The sessions of player 1 inside the 60 minutes up to now.
InWindow == Cardinality(Recent(1, now))

(* C17 as stated: concurrent requests of one player can push the sessions  *)
(* of a trailing 60 minutes past 20, but never past 21.                    *)
C17_OvershootAtMostOne == InWindow <= SessionQuota + 1

\* Every request that goes on to insert counted fewer than 20 rows.
CountedBelowQuota ==
    \A s \in Racers :
        (SessionRequest(s) /\ reqs[s].pc \in {"commit", "return"})
        => reqs[s].counted < SessionQuota

(* C17, amended: the quota query and the insert are not atomic as a pair,  *)
(* so every request that counted fewer than 20 sessions inserts its own:   *)
(* with k handlers running at once the sessions of a trailing 60 minutes   *)
(* can reach 19 + k and never more.  The overshoot is not one session but  *)
(* up to k - 1.                                                            *)
C17_OvershootBounded ==
    /\ CountedBelowQuota
    /\ InWindow <= SessionQuota - 1 + MaxRacers

\* All handlers of the burst counted 19 sessions and each inserted one.
C17_Witness ==
    /\ InWindow = SessionQuota - 1 + MaxRacers
    /\ InWindow > SessionQuota + 1
    /\ \A s \in Racers :
           /\ SessionRequest(s) /\ reqs[s].committed
           /\ reqs[s].counted = SessionQuota - 1

\* The store without the sessions of the players other than x.
OwnSessionsOnly(x) ==
    [players |-> players,
     game_sessions |-> SelectSeq(game_sessions, LAMBDA row : row.player_id = x)]

\* A correctly authenticated request of x gets the same kind of answer
\* whether or not other players have sessions.
OthersDoNotCount ==
    \A x \in PlayerIds, passcode \in QueryPasscodes :
        verify_player_passcode(x, passcode, Db).status = 200
        => create_game_session(x, passcode, Db, now).status
               = create_game_session(x, passcode, OwnSessionsOnly(x), now).status

\* The quota query of a request rejects exactly when the request's own
\* player has 20 or more sessions in the 60 minutes up to now.
OwnSessionsDecide ==
    \A s \in Slots :
        (/\ reqs[s].pc = "count" /\ reqs[s].route = "create_game_session"
         /\ reqs'[s].pc # "count" /\ ~reqs'[s].faulted)
        => LET own == Cardinality(Recent(reqs[s].args.player_id, now))
           IN  /\ reqs'[s].response = TooManySessions <=> own >= SessionQuota
               /\ reqs'[s].pc = "commit" <=> own < SessionQuota

(* C18: the quota decision for a create_game_session request of a player   *)
(* depends only on that player's own sessions of the trailing 60 minutes:  *)
(* sessions of other players and exercise results neither cause a          *)
(* correctly authenticated request to be rejected by the quota nor let it  *)
(* past the quota.                                                         *)
C18_QuotaIsolation == []OthersDoNotCount /\ [][OwnSessionsDecide]_vars

\* Player 2 was admitted with no session of their own while player 1 holds
\* 20 sessions of this hour and exercise results are stored.
C18_Witness ==
    /\ Cardinality(Recent(1, now)) >= SessionQuota
    /\ \E kind \in ExerciseKinds : results[kind] # {}
    /\ \E s \in Slots :
           /\ SessionRequest(s) /\ reqs[s].args.player_id = 2
           /\ reqs[s].committed /\ reqs[s].counted = 0
           /\ Len(game_sessions) > SessionQuota

====
